---------------------------- MODULE Spec2Model ----------------------------
(***************************************************************************)
(* NeuroStudio (src/src/App.tsx): a React application that trains a small *)
(* multi-layer perceptron on synthetic 2-D datasets.                      *)
(*                                                                         *)
(* Numbers.  The program computes in IEEE doubles.  The model computes in *)
(* integers: every real quantity is kept at unit precision (coordinates,  *)
(* weights, gradients, losses are whole numbers, a quotient v / n is the   *)
(* integer quotient) and the one non-number the program can produce, the   *)
(* NaN of 0 / 0, is the distinguished value NaN.  tanh, the logistic       *)
(* function, cos, sin and log are replaced by their values rounded to the  *)
(* nearest integer on the integer arguments the model feeds them.          *)
(*                                                                         *)
(* Randomness.  Math.random is process-global and unseeded: the draws of   *)
(* one call of a generator or initialiser are one stream g out of          *)
(* 1..NumStreams, and the k-th draw of randn() in that call is Randn(g,k). *)
(*                                                                         *)
(* React.  State setters enqueue updates; a render applies them.  Updates  *)
(* made in a DOM event handler (click, change) are rendered synchronously  *)
(* at the end of the event, with their effects; updates made in an         *)
(* animation-frame callback are rendered later by the scheduler, and the   *)
(* effects of that render run later still.                                 *)
(***************************************************************************)
EXTENDS Integers, Sequences, FiniteSets, TLC

\* ------------------------------------------------------------------ bounds

\* Streams of the unseeded random source that are told apart.
NumStreams == 2
\* Largest value of the "Points (per class)" slider (the program: 30..400).
MaxPoints == 2
\* Largest value of a "Units" slider (the program: 2..32).
MaxUnits == 3
\* Largest value of the "Hidden layers" slider (the program: 1..4).
MaxLayers == 2
\* Training steps issued in one run of the model.
MaxIter == 2
\* User events in one run of the model.
MaxEvents == 3
\* Draws taken from one seeded generator called directly.
MaxDraws == 3
\* Calls made on one engine constructed directly.
MaxCalls == 1

\* ------------------------------------------------------------- arithmetic

\* The NaN of IEEE arithmetic (0 / 0 in computeBatchGrads on an empty batch).
NaN == 0 - 2147483647

IsNaN(v) == v = NaN

\* a + b, a - b, a * b of doubles: NaN is absorbing.
Plus(a, b) == IF IsNaN(a) \/ IsNaN(b) THEN NaN ELSE a + b
Minus(a, b) == IF IsNaN(a) \/ IsNaN(b) THEN NaN ELSE a - b
Times(a, b) == IF IsNaN(a) \/ IsNaN(b) THEN NaN ELSE a * b

\* v / n for a count n >= 0.  The accumulators and the loss are 0 when n = 0
\* (no sample was added), so the only division by zero is 0 / 0 = NaN.
Quot(v, n) == IF IsNaN(v) \/ n = 0 THEN NaN ELSE v \div n

\* v > 0 of doubles: false for NaN.
Gt0(v) == ~IsNaN(v) /\ v > 0

\* The sequence f as a tuple: its elements are computed once, here.
Vec(f) == f \o <<>>

RECURSIVE SumSeq(_)
SumSeq(s) == IF s = <<>> THEN 0 ELSE Plus(Head(s), SumSeq(Tail(s)))

\* ------------------------------------------------------------------- RNG

Modulus == 2147483647
Multiplier == 16807

\* JavaScript's a % m for m > 0: the result has the sign of the dividend.
JsRem(a, m) == IF a >= 0 THEN a % m ELSE 0 - ((0 - a) % m)

\* (s * 16807) % 2147483647 for 0 <= s < 2147483647, exactly as the double
\* product gives it (s * 16807 < 2^53).  Computed by Schrage's decomposition
\* 2147483647 = 16807 * 127773 + 2836, which never leaves 32 bits.
MulMod(s) ==
    LET q == Modulus \div Multiplier
        r == Modulus % Multiplier
        t == Multiplier * (s % q) - r * (s \div q)
    IN  IF t < 0 THEN t + Modulus ELSE t

\* seededRandom(seed): the state s before the first draw.
SeedState(seed) ==
    LET s == JsRem(seed, Modulus)
    IN  IF s <= 0 THEN s + 2147483646 ELSE s

\* The state after k draws.
RECURSIVE RngState(_, _)
RngState(seed, k) == IF k = 0 THEN SeedState(seed) ELSE MulMod(RngState(seed, k - 1))

\* The k-th value returned (k >= 1) is RngState(seed, k) / 2147483647.  The model
\* keeps floor(4 * value), the quarter of (0,1) the value falls in (the quarters
\* are cut at multiples of 2^29, which is where value = 1/2 falls: no state is
\* 2147483647 / 2).
Quarter(s) == s \div 536870912

\* (rng() * 2 - 1) * 2 at unit precision (its floor): -2, -1, 0 or 1 ...
Coord2(s) == Quarter(s) - 2
\* ... and the test "x > 0" on the exact value: rng() > 1/2.
Positive(s) == Quarter(s) >= 2
\* (rng() * 2 - 1) * 3 at unit precision.
Coord3(s) == ((3 * Quarter(s)) \div 2) - 3

\* The k-th draw (k >= 0) of randn() in stream g, at unit precision.
Randn(g, k) == ((g * (k + 1) + (k \div 3)) % 3) - 1


\* ------------------------------------------------------------ trigonometry

\* cos(pi * num / den) and sin(pi * num / den), rounded to the nearest integer
\* (a half rounds away from zero): cos >= 1/2 within pi/3 of a multiple of 2 pi,
\* cos <= -1/2 within pi/3 of an odd multiple of pi.
CosPi(num, den) ==
    LET p == num % (2 * den)
    IN  IF 3 * p <= den \/ 3 * p >= 5 * den THEN 1
        ELSE IF 2 * den <= 3 * p /\ 3 * p <= 4 * den THEN 0 - 1
        ELSE 0

SinPi(num, den) == CosPi(2 * num - den, 2 * den)

\* --------------------------------------------------------------- datasets

\* randn() * noise (and randn() * noise * 0.15): the noise slider is 0 (off) or 1.
Jitter(g, k, noise) == Times(Randn(g, k), noise)

Classification == "classification"
Regression == "regression"

\* moons(n, noise, seed): n points of label 0, then n of label 1.  Each point
\* draws rng() once (the radius, 1 at unit precision) and randn() twice.
Moons(n, noise, seed, g) ==
    [ task |-> Classification,
      points |->
        [i \in 1..n |->
            [x |-> CosPi(i - 1, n) + Jitter(g, 2 * (i - 1), noise),
             y |-> SinPi(i - 1, n) + Jitter(g, 2 * (i - 1) + 1, noise),
             t |-> 0]]
        \o
        [i \in 1..n |->
            [x |-> 1 + CosPi(i - 1, n) + Jitter(g, 2 * n + 2 * (i - 1), noise),
             y |-> 0 - SinPi(i - 1, n) + Jitter(g, 2 * n + 2 * (i - 1) + 1, noise),
             t |-> 1]] ]

\* circles(n, noise): the radii 0.6 and 1.3 are 1 at unit precision; one randn()
\* per point.
Circles(n, noise, g) ==
    [ task |-> Classification,
      points |->
        [i \in 1..n |->
            LET r == 1 + Jitter(g, i - 1, noise)
            IN  [x |-> r * CosPi(2 * (i - 1), n), y |-> r * SinPi(2 * (i - 1), n),
                 t |-> 0]]
        \o
        [i \in 1..n |->
            LET r == 1 + Jitter(g, n + i - 1, noise)
            IN  [x |-> r * CosPi(2 * (i - 1), n), y |-> r * SinPi(2 * (i - 1), n),
                 t |-> 1]] ]

\* xor(n, noise, seed): ONE loop of n points; the label is the exclusive or of
\* the signs of the seeded coordinates, the point is those coordinates plus
\* unseeded jitter.
Xor(n, noise, seed, g) ==
    [ task |-> Classification,
      points |->
        [i \in 1..n |->
            LET sx == RngState(seed, 2 * i - 1)
                sy == RngState(seed, 2 * i)
            IN  [x |-> Coord2(sx) + Jitter(g, 2 * (i - 1), noise),
                 y |-> Coord2(sy) + Jitter(g, 2 * (i - 1) + 1, noise),
                 t |-> IF Positive(sx) # Positive(sy) THEN 1 ELSE 0]] ]

\* spirals(n, noise): the radius 0.1 + 0.08 t, t = 4 pi i / n, is 1 at unit
\* precision from i / n >= 2/5 on and 0 before; two randn() per point.
Spirals(n, noise, g) ==
    [ task |-> Classification,
      points |->
        [i \in 1..n |->
            LET r == IF 5 * (i - 1) >= 2 * n THEN 1 ELSE 0
            IN  [x |-> r * CosPi(4 * (i - 1), n) + Jitter(g, 2 * (i - 1), noise),
                 y |-> r * SinPi(4 * (i - 1), n) + Jitter(g, 2 * (i - 1) + 1, noise),
                 t |-> 0]]
        \o
        [i \in 1..n |->
            LET r == IF 5 * (i - 1) >= 2 * n THEN 1 ELSE 0
            IN  [x |-> r * CosPi(4 * (i - 1) + n, n)
                        + Jitter(g, 2 * n + 2 * (i - 1), noise),
                 y |-> r * SinPi(4 * (i - 1) + n, n)
                        + Jitter(g, 2 * n + 2 * (i - 1) + 1, noise),
                 t |-> 1]] ]

\* sin(r) / r, r = hypot(x, y) + 1e-6, rounded: 1 when r < 1.9, else 0.
SincValue(x, y) == IF x * x + y * y <= 3 THEN 1 ELSE 0

\* sinc(n, noise, seed): n points, one randn() each.
Sinc(n, noise, seed, g) ==
    [ task |-> Regression,
      points |->
        [i \in 1..n |->
            LET x == Coord3(RngState(seed, 2 * i - 1))
                y == Coord3(RngState(seed, 2 * i))
            IN  [x |-> x, y |-> y, t |-> SincValue(x, y) + Jitter(g, i - 1, noise)]] ]

\* 0.6 x - 0.3 y + 0.2 rounded to the nearest integer.
PlaneValue(x, y) == (6 * x - 3 * y + 7) \div 10

\* plane(n, noise, seed): n points, one randn() each.
Plane(n, noise, seed, g) ==
    [ task |-> Regression,
      points |->
        [i \in 1..n |->
            LET x == Coord2(RngState(seed, 2 * i - 1))
                y == Coord2(RngState(seed, 2 * i))
            IN  [x |-> x, y |-> y, t |-> PlaneValue(x, y) + Jitter(g, i - 1, noise)]] ]

DsKeys == {"moons", "circles", "xor", "spirals", "sinc", "plane"}

\* datasets[dsKey](n, noise, seed)
Generate(key, n, noise, seed, g) ==
    CASE key = "moons" -> Moons(n, noise, seed, g)
      [] key = "circles" -> Circles(n, noise, g)
      [] key = "xor" -> Xor(n, noise, seed, g)
      [] key = "spirals" -> Spirals(n, noise, g)
      [] key = "sinc" -> Sinc(n, noise, seed, g)
      [] key = "plane" -> Plane(n, noise, seed, g)

\* App's dsObj: the regression generators are asked for nPerClass * 2 points,
\* every classification generator (xor too) for nPerClass.
DsObj(key, nPerClass, noise, seed, g) ==
    LET baseN == IF key = "sinc" \/ key = "plane" THEN nPerClass * 2 ELSE nPerClass
    IN  Generate(key, baseN, noise, seed, g)

\* ------------------------------------------------------------ activations

\* The registry act: its two keys.
ActNames == {"tanh", "relu"}

\* Math.tanh(x) rounded: -1, 0 or 1.
Tanh(x) == IF IsNaN(x) THEN NaN ELSE IF x > 0 THEN 1 ELSE IF x < 0 THEN 0 - 1 ELSE 0

\* act[name].f(x)
ActF(name, x) ==
    IF name = "tanh" THEN Tanh(x)
    ELSE IF Gt0(x) THEN x ELSE 0

\* act[name].df(x), evaluated at the pre-activation x
ActDf(name, x) ==
    IF name = "tanh" THEN Minus(1, Times(Tanh(x), Tanh(x)))
    ELSE IF Gt0(x) THEN 1 ELSE 0

\* 1 / (1 + Math.exp(-v)) rounded (1/2 rounds up).
Sigmoid(v) == IF IsNaN(v) THEN NaN ELSE IF v >= 0 THEN 1 ELSE 0

\* -Math.log(p + 1e-8) rounded, for p = 0 or 1: 18 or 0.
NegLog(p) == IF IsNaN(p) THEN NaN ELSE IF p >= 1 THEN 0 ELSE 18

\* ----------------------------------------------------------------- engine

\* const sizes = [2, ...h, 1]
Sizes(h) == <<2>> \o h \o <<1>>

\* Array.from({length: n}, ...) has no element when n < 1.
Len0(n) == IF n < 0 THEN 0 ELSE n

\* The indices of "for (let i = 0; i < n; i++)" and of Array.from({length: n}).
Upto(n) == 1..Len0(n)

\* randn() draws made by initWeights for the layers before layer l.
RECURSIVE WDraws(_, _)
WDraws(sizes, l) ==
    IF l <= 1 THEN 0
    ELSE WDraws(sizes, l - 1) + Len0(sizes[l - 1]) * Len0(sizes[l])

\* randn() draws made by initBiases for the layers before layer l.
RECURSIVE BDraws(_, _)
BDraws(sizes, l) == IF l <= 1 THEN 0 ELSE BDraws(sizes, l - 1) + Len0(sizes[l])

\* initWeights(h): one matrix sizes[l] x sizes[l+1] per layer, every entry a
\* fresh randn() (times 1 / sqrt(fan-in), 1 at unit precision).  No size is
\* checked.
InitWeights(h, g) ==
    LET sizes == Sizes(h)
    IN  Vec([l \in 1..(Len(sizes) - 1) |->
            Vec([i \in Upto(sizes[l]) |->
                Vec([j \in Upto(sizes[l + 1]) |->
                    Randn(g, WDraws(sizes, l) + (i - 1) * Len0(sizes[l + 1]) + (j - 1))])])])

\* initBiases(h): one vector of length sizes[l+1] per layer, drawn after the
\* weights from the same source.
InitBiases(h, g) ==
    LET sizes == Sizes(h)
    IN  Vec([l \in 1..(Len(sizes) - 1) |->
            Vec([j \in Upto(sizes[l + 1]) |->
                Randn(g, WDraws(sizes, Len(sizes)) + BDraws(sizes, l) + (j - 1))])])

\* forward(x, y): the loop over the layers from layer l on, tr the trace so far.
RECURSIVE ForwardFrom(_, _, _, _, _, _, _)
ForwardFrom(W_, B_, sizes, activation_, task_, l, tr) ==
    IF l > Len(sizes) - 1 THEN tr
    ELSE
        LET inS == sizes[l]
            outS == sizes[l + 1]
            al == tr.a[l]
            zl == Vec([j \in Upto(outS) |->
                    Plus(B_[l][j],
                         SumSeq([i \in Upto(inS) |-> Times(al[i], W_[l][i][j])]))])
            isOut == l = Len(sizes) - 1
            an == IF isOut
                  THEN Vec([j \in Upto(outS) |->
                          IF task_ = Classification THEN Sigmoid(zl[j]) ELSE zl[j]])
                  ELSE Vec([j \in Upto(outS) |-> ActF(activation_, zl[j])])
        IN  ForwardFrom(W_, B_, sizes, activation_, task_, l + 1,
                        [a |-> Append(tr.a, an), z |-> Append(tr.z, zl)])

\* A variant of the next definition: the selected activation applied to the
\* output layer too.
ForwardActivatedOutput(W_, B_, H, activation_, task_, x, y) ==
    LET tr == ForwardFrom(W_, B_, Sizes(H), activation_, task_, 1,
                          [a |-> << <<x, y>> >>, z |-> <<>>])
        n == Len(tr.a)
        out == Vec([j \in 1..Len(tr.a[n]) |-> ActF(activation_, tr.z[n - 1][j])])
    IN  [a |-> [tr.a EXCEPT ![n] = out], z |-> tr.z, yhat |-> out[1]]

\* forward(x, y) = {a, z, yhat}
Forward(W_, B_, H, activation_, task_, x, y) ==
    LET tr == ForwardFrom(W_, B_, Sizes(H), activation_, task_, 1,
                          [a |-> << <<x, y>> >>, z |-> <<>>])
    IN  [a |-> tr.a, z |-> tr.z, yhat |-> tr.a[Len(tr.a)][1]]

\* predictBatch(XY)
PredictBatch(W_, B_, H, activation_, task_, pts) ==
    Vec([n \in 1..Len(pts) |->
            Forward(W_, B_, H, activation_, task_, pts[n].x, pts[n].y).yhat])

\* The loss one sample adds.
SampleLoss(task_, t, yhat) ==
    IF task_ = Classification
    THEN Plus(Times(t, NegLog(yhat)), Times(Minus(1, t), NegLog(Minus(1, yhat))))
    ELSE Quot(Times(Minus(yhat, t), Minus(yhat, t)), 2)

\* A variant of the next definition: the error sent down without the factor
\* df(z[l][i]).
RECURSIVE DeltaWithoutDf(_, _, _, _, _, _)
DeltaWithoutDf(W_, sizes, activation_, z, deltaL, l) ==
    IF l >= Len(sizes) - 1 THEN << deltaL >>
    ELSE
        LET above == DeltaWithoutDf(W_, sizes, activation_, z, deltaL, l + 1)
            next == Head(above)
        IN  << Vec([i \in Upto(sizes[l + 1]) |->
                    SumSeq([j \in Upto(sizes[l + 2]) |->
                               Times(next[j], W_[l + 1][i][j])])]) >> \o above

\* deltas[l..] of one sample, from layer l (1 = first weight layer) to the last:
\* the output error at the last layer, and below it
\* dl[i] = (sum_j deltas[l+1][j] * W[l+1][i][j]) * df(z[l][i]).
RECURSIVE Delta(_, _, _, _, _, _)
Delta(W_, sizes, activation_, z, deltaL, l) ==
    IF l >= Len(sizes) - 1 THEN << deltaL >>
    ELSE
        LET above == Delta(W_, sizes, activation_, z, deltaL, l + 1)
            next == Head(above)
        IN  << Vec([i \in Upto(sizes[l + 1]) |->
                    Times(SumSeq([j \in Upto(sizes[l + 2]) |->
                                     Times(next[j], W_[l + 1][i][j])]),
                          ActDf(activation_, z[l][i]))]) >> \o above

\* What one sample adds to gW, gB and loss.
SampleGrads(W_, B_, H, activation_, task_, p) ==
    LET sizes == Sizes(H)
        f == Forward(W_, B_, H, activation_, task_, p.x, p.y)
        deltaL == << Minus(f.yhat, p.t) >>
        deltas == Delta(W_, sizes, activation_, f.z, deltaL, 1)
    IN  [ gW |-> Vec([l \in 1..(Len(sizes) - 1) |->
                    Vec([i \in Upto(sizes[l]) |->
                        Vec([j \in Upto(sizes[l + 1]) |->
                            Times(f.a[l][i], deltas[l][j])])])]),
          gB |-> Vec([l \in 1..(Len(sizes) - 1) |->
                    Vec([j \in Upto(sizes[l + 1]) |-> deltas[l][j]])]),
          loss |-> SampleLoss(task_, p.t, f.yhat) ]

\* computeBatchGrads(XY, yTrue) = {gW, gB, loss}: the accumulators have the
\* shape of W and B, every sample is added, and all is divided by n = XY.length.
\* Nothing rejects n = 0.
ComputeBatchGrads(W_, B_, H, activation_, task_, pts) ==
    LET n == Len(pts)
        sg == Vec([k \in 1..n |-> SampleGrads(W_, B_, H, activation_, task_, pts[k])])
    IN  [ gW |-> Vec([l \in 1..Len(W_) |->
                    Vec([i \in 1..Len(W_[l]) |->
                        Vec([j \in 1..Len(W_[l][i]) |->
                            Quot(SumSeq([k \in 1..n |-> sg[k].gW[l][i][j]]), n)])])]),
          gB |-> Vec([l \in 1..Len(B_) |->
                    Vec([j \in 1..Len(B_[l]) |->
                        Quot(SumSeq([k \in 1..n |-> sg[k].gB[l][j]]), n)])]),
          loss |-> Quot(SumSeq([k \in 1..n |-> sg[k].loss]), n) ]

\* step's updater of W: prev.map(... w - scale * gW[l][i][j])
StepW(prev, gW, scale) ==
    Vec([l \in 1..Len(prev) |->
        Vec([i \in 1..Len(prev[l]) |->
            Vec([j \in 1..Len(prev[l][i]) |->
                Minus(prev[l][i][j], Times(scale, gW[l][i][j]))])])])

\* step's updater of B: prev.map(... bv - scale * gB[l][j])
StepB(prev, gB, scale) ==
    Vec([l \in 1..Len(prev) |->
        Vec([j \in 1..Len(prev[l]) |-> Minus(prev[l][j], Times(scale, gB[l][j]))])])

\* ------------------------------------------------------------ application

VARIABLES
    \* React state of App and of useMLP, as of the last committed render
    dsKey, seed, noise, nPerClass,  \* the generation parameters
    data,                           \* dsObj, memoised on the four above
    numLayers, layerSizes, activation,
    W, B,                           \* the parameters (useMLP)
    lr, running, iter, lossHist,
    overlayMode, overlayData,       \* overlayData: <<>> is null, <<g>> a GradientSet
    \* React itself
    pending,     \* updates enqueued since the oldest one not yet rendered
    base,        \* the updated hooks' values before the first of pending
    frames,      \* requested animation-frame callbacks: the closure of each tick
    effPending,  \* a render is committed and its effects have not run yet
    \* history
    applied,     \* the step updaters the last render ran, each with its prev
    lastEv,      \* the last thing that happened
    nEv,         \* user events so far
    issued,      \* steps issued so far
    \* the engine and the library called directly, outside App
    mlp,         \* an engine instance: useMLP's arguments and its W and B
    call         \* the last direct call: its arguments, its outcome

appVars == <<dsKey, seed, noise, nPerClass, data, numLayers, layerSizes, activation,
             W, B, lr, running, iter, lossHist, overlayMode, overlayData,
             pending, base, frames, effPending, applied, lastEv, nEv, issued>>
apiVars == <<mlp, call>>
vars == <<appVars, apiVars>>

Streams == 1..NumStreams

\* The sliders and selects, at the model's scale.
MinUnits == 2
NoiseLevels == {0, 1}
LrValues == {1, 2}
OverlayModes == {"none", "grad"}
InitSeed == 7

\* const activeLayers = layerSizes.slice(0, numLayers)
Slice(s, n) == SubSeq(s, 1, n)
ActiveLayers == Slice(layerSizes, numLayers)

\* The hooks that both an animation frame and an event handler update.
Hooks == [W |-> W, B |-> B, iter |-> iter, lossHist |-> lossHist,
          overlayData |-> overlayData]

\* What the functions created by one render close over.
Closure(W_, B_, H, activation_, ds, lr_, overlayMode_) ==
    [W |-> W_, B |-> B_, H |-> H, activation |-> activation_, task |-> ds.task,
     points |-> ds.points, lr |-> lr_, overlayMode |-> overlayMode_]

\* The closure of the committed render.
Current == Closure(W, B, ActiveLayers, activation, data, lr, overlayMode)

\* The steps are issued while the parameters are small: the model's integers
\* are 32 bits wide.
MaxWeight == 3
Abs(v) == IF v < 0 THEN 0 - v ELSE v
Small(W_, B_) ==
    /\ \A l \in 1..Len(W_) : \A i \in 1..Len(W_[l]) : \A j \in 1..Len(W_[l][i]) :
          Abs(W_[l][i][j]) <= MaxWeight
    /\ \A l \in 1..Len(B_) : \A j \in 1..Len(B_[l]) : Abs(B_[l][j]) <= MaxWeight

\* ---- the updates the handlers enqueue

\* step(XY, yTrue, lr), followed by tick's and doStep's own setters: the
\* gradients are computed NOW, from the W and B of the closure c; the updaters
\* of W and B run at the render, on the state of then.
StepUpdate(c, src) ==
    LET g == ComputeBatchGrads(c.W, c.B, c.H, c.activation, c.task, c.points)
    IN  [kind |-> "step", gW |-> g.gW, gB |-> g.gB, loss |-> g.loss, scale |-> c.lr,
         setOverlay |-> c.overlayMode # "none", read |-> c, src |-> src]

\* reinit(newLayers): setW(initWeights(newLayers)); setB(initBiases(newLayers))
Reinit(newLayers, g) ==
    [kind |-> "reinit", W |-> InitWeights(newLayers, g), B |-> InitBiases(newLayers, g)]

\* resetAll's setters of these hooks: setIter(0), setLossHist([]),
\* reinit(activeLayers), setOverlayData(null)
ResetUpdate(layers, g) ==
    [kind |-> "reset", W |-> InitWeights(layers, g), B |-> InitBiases(layers, g)]

\* A variant of the next definition: Probe grads applying the gradients it computed.
ProbeUpdateApplying(c) ==
    LET g == ComputeBatchGrads(c.W, c.B, c.H, c.activation, c.task, c.points)
    IN  [kind |-> "reinit", W |-> StepW(c.W, g.gW, c.lr), B |-> StepB(c.B, g.gB, c.lr)]

\* "Probe grads": setOverlayData(computeBatchGrads(XY, yTrue))
ProbeUpdate(c) ==
    [kind |-> "probe",
     g |-> ComputeBatchGrads(c.W, c.B, c.H, c.activation, c.task, c.points)]

\* A variant of the next definition: h.at(-1)?.step ?? (0 + 1)
NextStepNoUnparenthesised(h) == IF h = <<>> THEN 1 ELSE h[Len(h)].step

\* (h.at(-1)?.step ?? 0) + 1
NextStepNo(h) == (IF h = <<>> THEN 0 ELSE h[Len(h)].step) + 1

\* One update applied by a render to the hooks h.
Apply(u, h) ==
    CASE u.kind = "step" ->
            [W |-> StepW(h.W, u.gW, u.scale),
             B |-> StepB(h.B, u.gB, u.scale),
             iter |-> h.iter + 1,
             lossHist |-> Append(h.lossHist,
                                 [step |-> NextStepNo(h.lossHist), loss |-> u.loss]),
             overlayData |-> IF u.setOverlay
                             THEN << [gW |-> u.gW, gB |-> u.gB, loss |-> u.loss] >>
                             ELSE h.overlayData]
      [] u.kind = "reinit" -> [h EXCEPT !.W = u.W, !.B = u.B]
      [] u.kind = "reset" ->
            [W |-> u.W, B |-> u.B, iter |-> 0, lossHist |-> <<>>, overlayData |-> <<>>]
      [] u.kind = "probe" -> [h EXCEPT !.overlayData = << u.g >>]
      [] u.kind = "none" -> h

\* A handler that touches none of these hooks.
NoUpdate == [kind |-> "none"]

\* What a render records of a step updater it runs: the state it ran on (prev),
\* the closure its gradients were computed from (read), and its result.
StepRecord(u, h) ==
    [prevW |-> h.W, prevB |-> h.B, read |-> u.read, gW |-> u.gW, gB |-> u.gB,
     loss |-> u.loss, scale |-> u.scale, src |-> u.src,
     newW |-> Apply(u, h).W, newB |-> Apply(u, h).B]

\* The render of a queue q on the hooks h.
RECURSIVE ApplyAll(_, _)
ApplyAll(q, h) == IF q = <<>> THEN h ELSE ApplyAll(Tail(q), Apply(Head(q), h))

RECURSIVE StepsRun(_, _)
StepsRun(q, h) ==
    IF q = <<>> THEN <<>>
    ELSE (IF Head(q).kind = "step" THEN << StepRecord(Head(q), h) >> ELSE <<>>)
         \o StepsRun(Tail(q), Apply(Head(q), h))

\* ---- React

dsVars == <<dsKey, seed, noise, nPerClass, data>>
netVars == <<numLayers, layerSizes, activation>>
ctlVars == <<lr, running, overlayMode>>
hookVars == <<W, B, iter, lossHist, overlayData>>

\* base while nothing is pending.
NoBase == [W |-> <<>>, B |-> <<>>, iter |-> 0, lossHist |-> <<>>, overlayData |-> <<>>]

\* A variant of the next definition: a render committing W and leaving B for
\* the next one.
CommitHooksBLate(h) ==
    /\ W' = h.W
    /\ B' = B
    /\ iter' = h.iter
    /\ lossHist' = h.lossHist
    /\ overlayData' = h.overlayData

CommitHooks(h) ==
    /\ W' = h.W
    /\ B' = h.B
    /\ iter' = h.iter
    /\ lossHist' = h.lossHist
    /\ overlayData' = h.overlayData

\* A variant of the definition after the next: an effect that requests a frame
\* and has no cleanup.
RunEffectsWithoutCleanup ==
    /\ frames' = IF running'
                 THEN Append(frames, Closure(W', B', Slice(layerSizes', numLayers'),
                                             activation', data', lr', overlayMode'))
                 ELSE frames
    /\ effPending' = FALSE

\* A variant of the next definition: an effect whose cleanup cancels nothing.
RunEffectsKeepingFrame ==
    /\ frames' = IF running'
                 THEN << Closure(W', B', Slice(layerSizes', numLayers'), activation',
                                 data', lr', overlayMode') >>
                 ELSE frames
    /\ effPending' = FALSE

\* The effect of App and its cleanup, run for the render just committed:
\* cancelAnimationFrame(raf) of the previous run, then, if running,
\* raf = requestAnimationFrame(tick) with the tick of this render.
RunEffects ==
    /\ frames' = IF running'
                 THEN << Closure(W', B', Slice(layerSizes', numLayers'), activation',
                                 data', lr', overlayMode') >>
                 ELSE <<>>
    /\ effPending' = FALSE

\* A variant of the next definition: the update of the handler rendered at
\* once and not queued behind the pending updates of animation frames.
EventNotQueued(name, u) ==
    /\ nEv < MaxEvents
    /\ nEv' = nEv + 1
    /\ lastEv' = name
    /\ CommitHooks(Apply(u, Hooks))
    /\ applied' = IF u.kind = "step" THEN << StepRecord(u, Hooks) >> ELSE <<>>
    /\ pending' = pending
    /\ base' = base
    /\ RunEffects
    /\ UNCHANGED apiVars

\* A DOM event whose handler enqueued the update u of the hooks (and set the
\* primed configuration): React renders it before the event returns.  The
\* render skips the pending updates of animation frames, which stay queued with
\* u behind them, and the effects of the render run at once.
Event(name, u) ==
    /\ nEv < MaxEvents
    /\ nEv' = nEv + 1
    /\ lastEv' = name
    /\ CommitHooks(Apply(u, Hooks))
    /\ applied' = IF u.kind = "step" THEN << StepRecord(u, Hooks) >> ELSE <<>>
    /\ pending' = IF pending = <<>> \/ u.kind = "none" THEN pending ELSE Append(pending, u)
    /\ base' = base
    /\ RunEffects
    /\ UNCHANGED apiVars

\* An animation frame: the oldest requested tick runs, with the closure of the
\* render that created it.  It issues a step, and requests itself again.
Tick ==
    /\ frames # <<>>
    /\ issued < MaxIter
    /\ Small(Head(frames).W, Head(frames).B)
    /\ pending' = Append(pending, StepUpdate(Head(frames), "tick"))
    /\ base' = IF pending = <<>> THEN Hooks ELSE base
    /\ frames' = Append(Tail(frames), Head(frames))
    /\ issued' = issued + 1
    /\ lastEv' = "Tick"
    /\ UNCHANGED <<dsVars, netVars, ctlVars, hookVars, effPending, applied, nEv>>
    /\ UNCHANGED apiVars

\* The scheduler's render of the updates of animation frames: every pending
\* updater runs, in the order enqueued, from base.  The effects of an earlier
\* render that have not run yet run first; those of this one are scheduled.
RenderDefault ==
    /\ pending # <<>>
    /\ CommitHooks(ApplyAll(pending, base))
    /\ applied' = StepsRun(pending, base)
    /\ pending' = <<>>
    /\ base' = NoBase
    /\ frames' = IF effPending THEN (IF running THEN << Current >> ELSE <<>>) ELSE frames
    /\ effPending' = TRUE
    /\ lastEv' = "Render"
    /\ UNCHANGED <<dsVars, netVars, ctlVars, nEv, issued>>
    /\ UNCHANGED apiVars

\* The scheduler runs the effects of the last render.
FlushEffects ==
    /\ effPending
    /\ frames' = IF running THEN << Current >> ELSE <<>>
    /\ effPending' = FALSE
    /\ lastEv' = "Effects"
    /\ UNCHANGED <<dsVars, netVars, ctlVars, hookVars, pending, base, applied, nEv, issued>>
    /\ UNCHANGED apiVars

\* ---- the controls

\* Run / Pause: setRunning((r) => !r)
ToggleRun ==
    /\ running' = ~running
    /\ UNCHANGED <<dsVars, netVars, lr, overlayMode, issued>>
    /\ Event("ToggleRun", NoUpdate)

\* Step: doStep
DoStep ==
    /\ issued < MaxIter
    /\ Small(W, B)
    /\ issued' = issued + 1
    /\ UNCHANGED <<dsVars, netVars, ctlVars>>
    /\ Event("DoStep", StepUpdate(Current, "click"))

\* Reset: resetAll.  The new seed makes the render generate a new dataset.
ResetAll ==
    \E gi \in Streams :
        /\ running' = FALSE
        /\ seed' = seed + 1
        /\ data' = DsObj(dsKey, nPerClass, noise, seed + 1, gi)
        /\ UNCHANGED <<dsKey, noise, nPerClass, netVars, lr, overlayMode, issued>>
        /\ Event("ResetAll", ResetUpdate(ActiveLayers, gi))

\* Learning rate slider
SetLr ==
    \E v \in LrValues \ {lr} :
        /\ lr' = v
        /\ UNCHANGED <<dsVars, netVars, running, overlayMode, issued>>
        /\ Event("SetLr", NoUpdate)

\* Overlay select
SetOverlayMode ==
    \E m \in OverlayModes \ {overlayMode} :
        /\ overlayMode' = m
        /\ UNCHANGED <<dsVars, netVars, lr, running, issued>>
        /\ Event("SetOverlayMode", NoUpdate)

\* Probe grads
ProbeGrads ==
    /\ Small(W, B)
    /\ UNCHANGED <<dsVars, netVars, ctlVars, issued>>
    /\ Event("ProbeGrads", ProbeUpdate(Current))

\* A variant of the next definition: the handler handing reinit the layers of the render it runs in.
LayersForCountStale(ls, n) == ActiveLayers

\* The layers the "Hidden layers" handler hands to reinit.
LayersForCount(ls, n) == Slice(ls, n)

\* Hidden layers slider: setNumLayers(n); reinit(layerSizes.slice(0, n))
SetNumLayers ==
    \E n \in (1..MaxLayers) \ {numLayers}, gi \in Streams :
        /\ numLayers' = n
        /\ UNCHANGED <<dsVars, layerSizes, activation, ctlVars, issued>>
        /\ Event("SetNumLayers", Reinit(LayersForCount(layerSizes, n), gi))

\* const next = [...layerSizes]; next[idx] = v
NextSizes(ls, idx, v) == [ls EXCEPT ![idx] = v]

\* The layers the "Units" handler hands to reinit.
LayersForUnits(next, n) == Slice(next, n)

\* Units slider of layer idx: setLayerSizes(next); reinit(next.slice(0, numLayers))
SetUnits ==
    \E idx \in 1..numLayers, v \in MinUnits..MaxUnits, gi \in Streams :
        /\ v # layerSizes[idx]
        /\ layerSizes' = NextSizes(layerSizes, idx, v)
        /\ UNCHANGED <<dsVars, numLayers, activation, ctlVars, issued>>
        /\ Event("SetUnits",
                 Reinit(LayersForUnits(NextSizes(layerSizes, idx, v), numLayers), gi))

\* A variant of the next definition: the render of an activation change
\* generating the dataset anew.
SetActivationRegenerating ==
    \E a \in ActNames \ {activation}, gd \in Streams :
        /\ activation' = a
        /\ data' = DsObj(dsKey, nPerClass, noise, seed, gd)
        /\ UNCHANGED <<dsKey, seed, noise, nPerClass, numLayers, layerSizes, ctlVars, issued>>
        /\ Event("SetActivation", NoUpdate)

\* Activation buttons
SetActivation ==
    \E a \in ActNames \ {activation} :
        /\ activation' = a
        /\ UNCHANGED <<dsVars, numLayers, layerSizes, ctlVars, issued>>
        /\ Event("SetActivation", NoUpdate)

\* Dataset select
SetDsKey ==
    \E k \in DsKeys \ {dsKey}, gd \in Streams :
        /\ dsKey' = k
        /\ data' = DsObj(k, nPerClass, noise, seed, gd)
        /\ UNCHANGED <<seed, noise, nPerClass, netVars, ctlVars, issued>>
        /\ Event("SetDsKey", NoUpdate)

\* Points (per class) slider
SetNPerClass ==
    \E n \in (1..MaxPoints) \ {nPerClass}, gd \in Streams :
        /\ nPerClass' = n
        /\ data' = DsObj(dsKey, n, noise, seed, gd)
        /\ UNCHANGED <<dsKey, seed, noise, netVars, ctlVars, issued>>
        /\ Event("SetNPerClass", NoUpdate)

\* Noise slider
SetNoise ==
    \E v \in NoiseLevels \ {noise}, gd \in Streams :
        /\ noise' = v
        /\ data' = DsObj(dsKey, nPerClass, v, seed, gd)
        /\ UNCHANGED <<dsKey, seed, nPerClass, netVars, ctlVars, issued>>
        /\ Event("SetNoise", NoUpdate)

\* Reroll data: setSeed((s) => s + 1)
Reroll ==
    \E gd \in Streams :
        /\ seed' = seed + 1
        /\ data' = DsObj(dsKey, nPerClass, noise, seed + 1, gd)
        /\ UNCHANGED <<dsKey, noise, nPerClass, netVars, ctlVars, issued>>
        /\ Event("Reroll", NoUpdate)

\* ------------------------------------- the engine and the library, directly

\* Before any direct call.
NoEngine == [made |-> FALSE, hidden |-> <<>>, activation |-> "tanh", W |-> <<>>, B |-> <<>>,
             calls |-> 0]
NoCall == [op |-> "none"]

\* Activation names a caller may pass: the registry's, and one it does not hold.
CallerActNames == ActNames \cup {"sigmoid"}

\* Hidden-layer lists a caller passes to useMLP ...
HiddenLists == {<<MinUnits>>, <<1, MinUnits>>}
\* ... and to reinit: sizes below 1 included.
ReinitLists == {<<MinUnits>>, <<1, 1>>, <<0>>, <<0 - 1>>, <<MinUnits, 0>>}

\* Seeds a caller may pass to seededRandom and to the generators.
Seeds == {0 - 2147483647, 0 - 2147483646, 0 - 1, 0, 1, InitSeed, 2147483646, 2147483647}

\* The batches handed to step and computeBatchGrads: the first k points of a
\* dataset, k = 0 (the empty batch) included.
BatchOf(key, k) ==
    LET ds == Generate(key, MaxPoints, 0, InitSeed, 1)
    IN  [task |-> ds.task, points |-> SubSeq(ds.points, 1, k)]

\* What forward throws, if anything, when there is a sample to run it on: on a
\* hidden layer it evaluates Array(outS), a RangeError when outS < 0, and then
\* actFun.f, a TypeError when actFun is undefined.
Throws(m, pts) ==
    LET h == m.hidden
    IN  IF pts = <<>> \/ h = <<>> THEN "none"
        ELSE IF h[1] < 0 THEN "RangeError"
        ELSE IF m.activation \notin ActNames THEN "TypeError"
        ELSE IF \E l \in 1..Len(h) : h[l] < 0 THEN "RangeError"
        ELSE "none"

\* useMLP({layers, activation, task}): W and B initialised from layers, actFun
\* looked up in the registry and not tested.
CallUseMLP ==
    /\ ~mlp.made
    /\ \E h \in HiddenLists, a \in CallerActNames, g \in Streams :
        /\ mlp' = [made |-> TRUE, hidden |-> h, activation |-> a,
                   W |-> InitWeights(h, g), B |-> InitBiases(h, g), calls |-> 0]
        /\ call' = [op |-> "useMLP", hidden |-> h, activation |-> a, err |-> "none"]
        /\ UNCHANGED appVars

\* reinit(newLayers), the caller passing the same layers to the next render.
CallReinit ==
    /\ mlp.made
    /\ mlp.calls < MaxCalls
    /\ \E h \in ReinitLists, g \in Streams :
        /\ mlp' = [mlp EXCEPT !.hidden = h, !.W = InitWeights(h, g),
                              !.B = InitBiases(h, g), !.calls = mlp.calls + 1]
        /\ call' = [op |-> "reinit", layers |-> h, preW |-> mlp.W, preB |-> mlp.B,
                    err |-> "none"]
        /\ UNCHANGED appVars

\* computeBatchGrads(XY, yTrue)
CallComputeBatchGrads ==
    /\ mlp.made
    /\ mlp.calls < MaxCalls
    /\ Small(mlp.W, mlp.B)
    /\ \E key \in {"moons", "plane"}, k \in 0..MaxPoints :
        LET b == BatchOf(key, k)
            err == Throws(mlp, b.points)
        IN  /\ call' = [op |-> "computeBatchGrads", task |-> b.task, points |-> b.points,
                        err |-> err,
                        preW |-> mlp.W, preB |-> mlp.B,
                        result |-> IF err = "none"
                                   THEN << ComputeBatchGrads(mlp.W, mlp.B, mlp.hidden,
                                               mlp.activation, b.task, b.points) >>
                                   ELSE <<>>]
            /\ mlp' = [mlp EXCEPT !.calls = mlp.calls + 1]
            /\ UNCHANGED appVars

\* forward(x, y) on a point of a dataset, the engine rendered with its task.
CallForward ==
    /\ mlp.made
    /\ mlp.calls < MaxCalls
    /\ Small(mlp.W, mlp.B)
    /\ \E key \in {"moons", "plane"}, k \in 1..MaxPoints :
        LET b == BatchOf(key, k)
            p == b.points[k]
            err == Throws(mlp, << p >>)
        IN  /\ call' = [op |-> "forward", task |-> b.task, x |-> p.x, y |-> p.y,
                        err |-> err, preW |-> mlp.W, preB |-> mlp.B,
                        result |-> IF err = "none"
                                   THEN << Forward(mlp.W, mlp.B, mlp.hidden, mlp.activation,
                                                   b.task, p.x, p.y) >>
                                   ELSE <<>>]
            /\ mlp' = [mlp EXCEPT !.calls = mlp.calls + 1]
            /\ UNCHANGED appVars

\* step(XY, yTrue, lr), rendered at once: prev is the W the gradients were
\* computed from.
CallStep ==
    /\ mlp.made
    /\ mlp.calls < MaxCalls
    /\ Small(mlp.W, mlp.B)
    /\ \E key \in {"moons", "plane"}, k \in 0..MaxPoints, rate \in LrValues :
        LET b == BatchOf(key, k)
            err == Throws(mlp, b.points)
            g == ComputeBatchGrads(mlp.W, mlp.B, mlp.hidden, mlp.activation,
                                   b.task, b.points)
        IN  /\ call' = [op |-> "step", task |-> b.task, points |-> b.points, lr |-> rate,
                        err |-> err,
                        preW |-> mlp.W, preB |-> mlp.B,
                        result |-> IF err = "none" THEN << g.loss >> ELSE <<>>]
            /\ mlp' = IF err = "none"
                      THEN [mlp EXCEPT !.W = StepW(mlp.W, g.gW, rate),
                                       !.B = StepB(mlp.B, g.gB, rate),
                                       !.calls = mlp.calls + 1]
                      ELSE [mlp EXCEPT !.calls = mlp.calls + 1]
            /\ UNCHANGED appVars

\* datasets[key](n, noise, seed), called twice with the same arguments: the
\* unseeded source is wherever it is at each call.
CallGenerate ==
    /\ call = NoCall
    /\ \E key \in DsKeys, n \in 0..MaxPoints, v \in NoiseLevels, sd \in Seeds,
       g1 \in Streams, g2 \in Streams :
        /\ call' = [op |-> "generate", key |-> key, n |-> n, noise |-> v, seed |-> sd,
                    first |-> Generate(key, n, v, sd, g1),
                    second |-> Generate(key, n, v, sd, g2)]
        /\ UNCHANGED <<mlp, appVars>>

\* const rng = seededRandom(seed), then MaxDraws calls of rng(): the states s
\* the generator goes through, the one before the first draw first.
CallSeededRandom ==
    /\ call = NoCall
    /\ \E sd \in Seeds :
        /\ call' = [op |-> "seededRandom", seed |-> sd,
                    states |-> [k \in 1..(MaxDraws + 1) |-> RngState(sd, k - 1)]]
        /\ UNCHANGED <<mlp, appVars>>

\* The first render: useState's initial values, the effect run with running false.
Init ==
    \E gi \in Streams :
        /\ dsKey = "moons"
        /\ seed = InitSeed
        /\ noise = 1
        /\ nPerClass = 1
        /\ data = DsObj("moons", 1, 1, InitSeed, gi)
        /\ numLayers = 2
        /\ layerSizes = [i \in 1..MaxLayers |-> MinUnits]
        /\ activation = "tanh"
        /\ W = InitWeights(<<MinUnits, MinUnits>>, gi)
        /\ B = InitBiases(<<MinUnits, MinUnits>>, gi)
        /\ lr = 1
        /\ running = FALSE
        /\ iter = 0
        /\ lossHist = <<>>
        /\ overlayMode = "none"
        /\ overlayData = <<>>
        /\ pending = <<>>
        /\ base = NoBase
        /\ frames = <<>>
        /\ effPending = FALSE
        /\ applied = <<>>
        /\ lastEv = "Init"
        /\ nEv = 0
        /\ issued = 0
        /\ mlp = NoEngine
        /\ call = NoCall

Next ==
    \/ Tick
    \/ RenderDefault
    \/ FlushEffects
    \/ ToggleRun
    \/ DoStep
    \/ ResetAll
    \/ SetLr
    \/ SetOverlayMode
    \/ ProbeGrads
    \/ SetNumLayers
    \/ SetUnits
    \/ SetActivation
    \/ SetDsKey
    \/ SetNPerClass
    \/ SetNoise
    \/ Reroll


\* The application.
Spec == Init /\ [][Next]_vars

\* The engine called directly.
NextEngine ==
    \/ CallUseMLP
    \/ CallReinit
    \/ CallForward
    \/ CallComputeBatchGrads
    \/ CallStep

SpecEngine == Init /\ [][NextEngine]_vars

\* The generators called directly.
NextLib ==
    \/ CallGenerate
    \/ CallSeededRandom

SpecLib == Init /\ [][NextLib]_vars

\* ----------------------------------------------------------------- claims

\* C1: a call of step or computeBatchGrads with an empty batch fails with
\* EmptyBatch, and W and B are after the call what they were before it.
EmptyBatchRejected ==
    (call.op \in {"step", "computeBatchGrads"} /\ call.points = <<>>)
        => /\ call.err = "EmptyBatch"
           /\ mlp.W = call.preW
           /\ mlp.B = call.preB

\* C4: two xor datasets generated with the same count, noise and seed are the
\* same sequence of points, whatever the Gaussian sampler returns.
XorReproducible ==
    (call.op = "generate" /\ call.key = "xor")
        => call.first.points = call.second.points

\* The points of pts labelled t.
Labelled(pts, t) == {i \in 1..Len(pts) : pts[i].t = t}

\* C5: for a count n >= 1 a classification generator returns 2n points, n of
\* label 0 and n of label 1, and a regression generator returns n points.
GeneratorCounts ==
    (call.op = "generate" /\ call.n >= 1)
        => LET pts == call.first.points
           IN  IF call.first.task = Classification
               THEN /\ Len(pts) = 2 * call.n
                    /\ Cardinality(Labelled(pts, 0)) = call.n
                    /\ Cardinality(Labelled(pts, 1)) = call.n
               ELSE Len(pts) = call.n

\* C6: reinit with a layer size below 1 fails with InvalidArchitecture and
\* installs nothing: W and B stay what they were.
InvalidArchitectureRejected ==
    (call.op = "reinit" /\ \E l \in 1..Len(call.layers) : call.layers[l] < 1)
        => /\ call.err = "InvalidArchitecture"
           /\ mlp.W = call.preW
           /\ mlp.B = call.preB

\* C7: constructing the engine with an activation name the registry does not
\* hold is rejected with UnknownActivation.
UnknownActivationRejected ==
    (call.op = "useMLP" /\ call.activation \notin ActNames)
        => call.err = "UnknownActivation"

\* C9: for every seed the state of the seeded generator is strictly between 0
\* and 2147483647 before the first draw and after every draw.
SeedStateInRange ==
    call.op = "seededRandom"
        => \A k \in 1..Len(call.states) : 0 < call.states[k] /\ call.states[k] < Modulus

\* W_ and B_ have the shape of the layer sizes [2, h1..hk, 1].
ShapeOK(W_, B_, h) ==
    LET sizes == Sizes(h)
    IN  /\ Len(W_) = Len(sizes) - 1
        /\ Len(B_) = Len(sizes) - 1
        /\ \A l \in 1..(Len(sizes) - 1) :
              /\ Len(W_[l]) = sizes[l]
              /\ \A i \in 1..Len(W_[l]) : Len(W_[l][i]) = sizes[l + 1]
              /\ Len(B_[l]) = sizes[l + 1]

\* A transition that changes the layer count or a width of an active layer ...
ArchitectureChanges == Slice(layerSizes', numLayers') # ActiveLayers
\* ... and one whose W and B are wholly new, initialised for the new layers.
ParametersReplaced ==
    \E g \in Streams :
        /\ W' = InitWeights(Slice(layerSizes', numLayers'), g)
        /\ B' = InitBiases(Slice(layerSizes', numLayers'), g)

\* C2: in every reachable state of the application W and B have the shape of
\* the current layer sizes, and every change of the layer count or of a width
\* replaces all of W and B in the same transition.
ShapesFollowArchitecture ==
    /\ []ShapeOK(W, B, ActiveLayers)
    /\ [][ArchitectureChanges => ParametersReplaced]_vars

\* The architecture was changed after a training step was issued.
ArchitectureChangedAfterStep ==
    /\ lastEv \in {"SetNumLayers", "SetUnits"}
    /\ ActiveLayers # <<MinUnits, MinUnits>>
    /\ issued > 0
    /\ ShapeOK(W, B, ActiveLayers)

\* C3: every step a render applies leaves W and B at their values just before
\* it minus lr times the gradients computeBatchGrads gives AT THOSE values, and
\* its loss is the batch loss there.
StepDescendsFromCurrent ==
    \A k \in 1..Len(applied) :
        LET r == applied[k]
            g == ComputeBatchGrads(r.prevW, r.prevB, r.read.H, r.read.activation,
                                   r.read.task, r.read.points)
        IN  /\ r.newW = StepW(r.prevW, g.gW, r.scale)
            /\ r.newB = StepB(r.prevB, g.gB, r.scale)
            /\ r.loss = g.loss

\* The events of the application that are not training.
NonTraining == {"ProbeGrads", "SetDsKey", "Reroll", "SetNoise", "SetNPerClass",
                "SetLr", "SetActivation", "SetOverlayMode", "ToggleRun"}
\* The transitions in which a step or a reinit is applied.
Writers == {"DoStep", "Render", "SetNumLayers", "SetUnits", "ResetAll"}

\* C8: W and B change only where a step or a reinit is applied; Probe grads
\* and every non-training event leave every entry of W and B as it was.
ParametersChangeOnlyByStepOrReinit ==
    [][ /\ lastEv' \in NonTraining => (W' = W /\ B' = B)
        /\ (W' # W \/ B' # B) => lastEv' \in Writers ]_vars

\* Probe grads was clicked on a trained network, and its gradients are shown.
ProbedAfterStep ==
    /\ lastEv = "ProbeGrads"
    /\ iter > 0
    /\ overlayData # <<>>
    /\ overlayData[1].gW # [l \in 1..Len(W) |-> [i \in 1..Len(W[l]) |->
                                [j \in 1..Len(W[l][i]) |-> 0]]]

\* C10: steps never overlap: the parameters a step was issued on (the ones its
\* gradients were computed from) are the ones the step before it wrote, which
\* are the ones it is applied to.
StepsDoNotOverlap ==
    \A k \in 1..Len(applied) :
        /\ applied[k].read.W = applied[k].prevW
        /\ applied[k].read.B = applied[k].prevB

\* The last element of a non-empty sequence.
Last(q) == q[Len(q)]

\* A transition whose render ends on a step: a Step click, or the scheduler's
\* render of a queue whose last update is a step.
EndsOnStep ==
    \/ lastEv' = "DoStep"
    \/ lastEv' = "Render" /\ Last(pending).kind = "step"

\* C11: once running is cleared (Pause, Reset) no animation frame is left
\* requested and no tick issues a step until running is set again; and a step
\* is never applied in part: the render that applies it commits its update of
\* W and its update of B together.
CancellationEffective ==
    /\ [](~running => frames = <<>>)
    /\ [][lastEv' = "Tick" => running /\ running']_vars
    /\ [][EndsOnStep =>
            LET r == Last(applied')
            IN  /\ W' = StepW(r.prevW, r.gW, r.scale)
                /\ B' = StepB(r.prevB, r.gB, r.scale)]_vars

\* Paused with a step of a tick still queued, which the next render applied
\* whole.
PausedThenStepCompleted ==
    /\ ~running
    /\ lastEv = "Render"
    /\ applied # <<>>
    /\ Last(applied).src = "tick"
    /\ W = Last(applied).newW
    /\ W # Last(applied).prevW
    /\ frames = <<>>

\* What can observe W and B: the committed render, the requested ticks, and
\* the steps issued and not yet rendered.
Observers ==
    {Current} \cup {frames[k] : k \in 1..Len(frames)}
              \cup {pending[k].read : k \in {n \in 1..Len(pending) : pending[n].kind = "step"}}

\* C12: W and B are replaced together: whenever a transition changes W or B,
\* the new W and the new B are one freshly initialised parameter set, or are
\* the W and the B that one and the same step produced; and no observer holds
\* a W and a B that do not belong together.
ParametersInstalledTogether ==
    /\ [](\A c \in Observers : ShapeOK(c.W, c.B, c.H))
    /\ [][(W' # W \/ B' # B) =>
            \/ ParametersReplaced
            \/ /\ applied' # <<>>
               /\ W' = StepW(Last(applied').prevW, Last(applied').gW, Last(applied').scale)
               /\ B' = StepB(Last(applied').prevB, Last(applied').gB, Last(applied').scale)]_vars

\* A Step click has changed W and B, both, in its one render.
StepChangedBoth ==
    /\ lastEv = "DoStep"
    /\ applied # <<>>
    /\ W = Last(applied).newW /\ W # Last(applied).prevW
    /\ B = Last(applied).newB /\ B # Last(applied).prevB

\* The backward pass as stated: the error of the nodes that weight layer l feeds
\* (l = 1 the first hidden layer, l = Len(sizes) - 1 the output), for a sample
\* of target t with forward trace f.
RECURSIVE StatedDelta(_, _, _, _, _, _)
StatedDelta(W_, sizes, activation_, f, t, l) ==
    IF l = Len(sizes) - 1 THEN << Minus(f.yhat, t) >>
    ELSE LET up == StatedDelta(W_, sizes, activation_, f, t, l + 1)
         IN  [i \in 1..sizes[l + 1] |->
                Times(ActDf(activation_, f.z[l][i]),
                      SumSeq([j \in 1..sizes[l + 2] |-> Times(up[j], W_[l + 1][i][j])]))]

\* The gradients as stated: a[l][i] * delta[l][j] and delta[l][j] summed over
\* the batch, and the loss summed over the batch, each divided once by n.
StatedGrads(W_, B_, H, activation_, task_, pts) ==
    LET sizes == Sizes(H)
        n == Len(pts)
        fw(k) == Forward(W_, B_, H, activation_, task_, pts[k].x, pts[k].y)
        dl(k, l) == StatedDelta(W_, sizes, activation_, fw(k), pts[k].t, l)
    IN  [ gW |-> [l \in 1..(Len(sizes) - 1) |-> [i \in 1..sizes[l] |->
                    [j \in 1..sizes[l + 1] |->
                        Quot(SumSeq([k \in 1..n |-> Times(fw(k).a[l][i], dl(k, l)[j])]), n)]]],
          gB |-> [l \in 1..(Len(sizes) - 1) |-> [j \in 1..sizes[l + 1] |->
                    Quot(SumSeq([k \in 1..n |-> dl(k, l)[j]]), n)]],
          loss |-> Quot(SumSeq([k \in 1..n |->
                          SampleLoss(task_, pts[k].t, fw(k).yhat)]), n) ]

\* C13: on a non-empty batch computeBatchGrads returns the stated backward
\* pass, for one hidden layer and for more: the output error yhat - t, the
\* hidden errors df(z) times the weighted errors above, gW and gB and the loss
\* averaged over the batch.
BackwardPassAsStated ==
    (call.op = "computeBatchGrads" /\ call.err = "none" /\ call.points # <<>>)
        => call.result[1] = StatedGrads(call.preW, call.preB, mlp.hidden, mlp.activation,
                                        call.task, call.points)

\* Gradients were computed through two hidden layers, and the first layer's
\* are not all zero.
GradsThroughTwoHiddenLayers ==
    /\ call.op = "computeBatchGrads"
    /\ call.err = "none"
    /\ Len(call.points) > 1
    /\ Len(mlp.hidden) = 2
    /\ \E i \in 1..2, j \in 1..mlp.hidden[1] : call.result[1].gW[1][i][j] # 0

\* C14: forward returns one activation vector per layer and one pre-activation
\* vector per layer after the input; a[0] is the input and a[l] has the size of
\* layer l; z is the bias plus the weighted activations below; a hidden layer
\* is the selected activation of its z; the output is the sigmoid of its z for
\* classification and its z for regression; yhat is the first output.
ForwardTraceAsStated ==
    (call.op = "forward" /\ call.err = "none")
        => LET f == call.result[1]
               sizes == Sizes(mlp.hidden)
               n == Len(sizes)
           IN  /\ Len(f.a) = n
               /\ Len(f.z) = n - 1
               /\ f.a[1] = <<call.x, call.y>>
               /\ \A l \in 1..n : Len(f.a[l]) = sizes[l]
               /\ \A l \in 1..(n - 1) : \A j \in 1..sizes[l + 1] :
                     /\ f.z[l][j] = Plus(call.preB[l][j],
                                         SumSeq([i \in 1..sizes[l] |->
                                                    Times(f.a[l][i], call.preW[l][i][j])]))
                     /\ f.a[l + 1][j] =
                           IF l < n - 1 THEN ActF(mlp.activation, f.z[l][j])
                           ELSE IF call.task = Classification THEN Sigmoid(f.z[l][j])
                           ELSE f.z[l][j]
               /\ f.yhat = f.a[n][1]

\* forward ran on a regression engine of two hidden layers and its output is
\* negative: no sigmoid made it.
NegativeRegressionOutput ==
    /\ call.op = "forward"
    /\ call.err = "none"
    /\ call.task = Regression
    /\ Len(mlp.hidden) = 2
    /\ call.result[1].yhat < 0

\* The generation parameters.
GenerationParameters == <<dsKey, seed, noise, nPerClass>>

\* C15: the dataset is what the generator gave for the current generation
\* parameters; a transition that changes none of them (a step, a reinit, an
\* activation, learning-rate or overlay change) leaves the points as they are;
\* Reset and Reroll add one to the seed and the dataset is generated anew.
DatasetFollowsParameters ==
    /\ [](\E g \in Streams : data = DsObj(dsKey, nPerClass, noise, seed, g))
    /\ [][GenerationParameters' = GenerationParameters => data' = data]_vars
    /\ [][lastEv' \in {"Reroll", "ResetAll"} =>
            /\ seed' = seed + 1
            /\ \E g \in Streams : data' = DsObj(dsKey', nPerClass', noise', seed', g)]_vars

\* The data was rerolled after training on a seeded dataset, and the points
\* changed with the seed.
RerolledAfterTraining ==
    /\ lastEv = "Reroll"
    /\ iter > 0
    /\ dsKey = "xor"
    /\ \A g \in Streams : data # DsObj(dsKey, nPerClass, noise, seed - 1, g)

\* g has the layers, the rows and the columns of W_.
SameShape(g, W_) ==
    /\ Len(g) = Len(W_)
    /\ \A l \in 1..Len(W_) :
          /\ Len(g[l]) = Len(W_[l])
          /\ \A i \in 1..Len(W_[l]) : Len(g[l][i]) = Len(W_[l][i])

\* C16: whenever the gradient overlay is shown (overlayMode is "grad" and
\* overlayData is not null), overlayData.gW has the shape of the current W.
OverlayMatchesParameters ==
    (overlayMode = "grad" /\ overlayData # <<>>) => SameShape(overlayData[1].gW, W)

\* C17: at most one animation-frame callback of the training loop is requested
\* at any time, and none while running is false; a frame runs one tick, which
\* issues one step and requests one frame.
SingleFrameRequested ==
    /\ [](Len(frames) <= 1 /\ (frames # <<>> => running))
    /\ [][lastEv' = "Tick" =>
            /\ issued' = issued + 1
            /\ Len(pending') = Len(pending) + 1
            /\ Len(frames') = 1]_vars

\* Running, after a tick, its render and the re-run of the effect: one frame
\* is requested, with the tick of the new render.
ResubscribedWhileRunning ==
    /\ running
    /\ lastEv = "Effects"
    /\ iter > 0
    /\ frames = << Current >>

\* The handlers of the architecture, the dataset and the learning rate.
ConfigurationEvents ==
    {"SetNumLayers", "SetUnits", "SetActivation",
     "SetDsKey", "SetNPerClass", "SetNoise", "Reroll", "SetLr"}

RECURSIVE CountSteps(_)
\* The number of steps among the updates q.
CountSteps(q) ==
    IF q = <<>> THEN 0
    ELSE (IF Head(q).kind = "step" THEN 1 ELSE 0) + CountSteps(Tail(q))

\* C18: the iteration counter is the length of the loss history, whose step
\* numbers are 1, 2, ..., n in order; a manual step appends the entry numbered
\* iter + 1, a render of ticked steps appends one entry per step, and a change
\* of the architecture, the dataset or the learning rate changes neither.
CounterIsHistoryLength ==
    /\ [](/\ iter = Len(lossHist)
          /\ \A i \in 1..Len(lossHist) : lossHist[i].step = i)
    /\ [][lastEv' = "DoStep" =>
            /\ iter' = iter + 1
            /\ SubSeq(lossHist', 1, iter) = lossHist]_vars
    /\ [][(lastEv' = "Render" /\ \A i \in 1..Len(pending) : pending[i].kind # "reset") =>
            /\ iter' = base.iter + CountSteps(pending)
            /\ SubSeq(lossHist', 1, base.iter) = base.lossHist]_vars
    /\ [][lastEv' \in ConfigurationEvents =>
            iter' = iter /\ lossHist' = lossHist]_vars

\* Two entries after a Reset, the second appended by the render of a tick.
TwoEntriesAfterReset ==
    /\ seed > InitSeed
    /\ lastEv = "Render"
    /\ Len(lossHist) = 2
    /\ applied # <<>>

\* The updates of q after index k hold no step issued by a tick.
NoTickAfter(q, k) ==
    \A j \in (k + 1)..Len(q) : q[j].kind = "step" => q[j].src = "click"

\* C19: Reset is one transition to a fresh training state: running is false,
\* iter is 0, lossHist is empty, overlayData is null, seed is one more, W and B
\* are initWeights and initBiases of the active layers and no frame is
\* requested; a later render of steps issued before the Reset changes neither
\* W, B, iter nor lossHist.
ResetIsFresh ==
    /\ [][lastEv' = "ResetAll" =>
            /\ ~running'
            /\ iter' = 0
            /\ lossHist' = <<>>
            /\ overlayData' = <<>>
            /\ seed' = seed + 1
            /\ frames' = <<>>
            /\ ActiveLayers' = ActiveLayers
            /\ \E g \in Streams :
                  /\ W' = InitWeights(ActiveLayers, g)
                  /\ B' = InitBiases(ActiveLayers, g)]_vars
    /\ [][(lastEv = "ResetAll" /\ lastEv' = "Render") =>
            UNCHANGED <<W, B, iter, lossHist, overlayData>>]_vars
    /\ [][(/\ lastEv' = "Render"
           /\ \E k \in 1..Len(pending) :
                 pending[k].kind = "reset" /\ NoTickAfter(pending, k)) =>
            UNCHANGED <<W, B, iter, lossHist>>]_vars

\* A step issued by a tick before a Reset has been run by the render after it.
TickRenderedAfterReset ==
    /\ lastEv = "Render"
    /\ applied # <<>>
    /\ seed > InitSeed
    /\ ~running
    /\ iter = 0

=============================================================================
